---- MODULE Spec2Model ----
(***************************************************************************)
(* Model of the StockTrackerPro dashboard script (src/main.py): one        *)
(* top-to-bottom run of the script, with the market-data and news          *)
(* providers as external services whose calls may raise.                   *)
(*                                                                         *)
(* Floats are modelled as exact values: a record [k, n, d] that is either  *)
(* the rational n/d in lowest terms (k = "num"), an infinity of sign n     *)
(* (k = "inf") or NaN (k = "nan"), with IEEE-754 rules for division by     *)
(* zero and for NaN.  Rounding is not modelled.  A negative zero is not    *)
(* modelled either: x / -0.0 = -inf, and 100 - 100 / (1 + -inf) is 100     *)
(* as for +inf, and 0 / -0.0 is NaN as for 0 / 0.                          *)
(***************************************************************************)
EXTENDS Integers, Sequences, FiniteSets, TLC

VARIABLES
    symbols,        \* list parsed from the text input (line 50)
    start_date,     \* date inputs (lines 55, 57)
    end_date,
    api_key_set,    \* whether os.environ holds API_KEY (line 100)
    market,         \* market-data provider: symbol -> [table, info] it returns for this run's request
    feed,           \* news provider: symbol -> articles it returns for the symbol's query
    pc,             \* position of the script
    i,              \* loop index of get_stock_data / get_news_sentiment (1-based)
    data,           \* dict symbol -> price table (lines 66, 79)
    info,           \* dict symbol -> metadata record (lines 67, 79)
    log,            \* external calls made so far, in order
    ui,             \* elements written to the page so far, in order
    ns_local,       \* get_news_sentiment's local dict news_sentiment (line 99)
    news_sentiment, \* the value get_news_sentiment returned (line 305)
    csv,            \* symbol -> CSV encoded into the download link (line 367)
    crash           \* the uncaught exception that ended the run, if any

vars == <<symbols, start_date, end_date, api_key_set, market, feed, pc, i,
          data, info, log, ui, ns_local, news_sentiment, csv, crash>>

----------------------------------------------------------------------------
(* Bounds of the model *)

MaxSymbols == 2
MaxBars == 52

(* Program constants *)

SMA_SHORT == 20
SMA_LONG == 50
RSI_WINDOW == 14

Symbols == {"A", "B"}

----------------------------------------------------------------------------
(* Float values *)

RECURSIVE GCD(_, _)
GCD(a, b) == IF b = 0 THEN a ELSE GCD(b, a % b)

Abs(x) == IF x < 0 THEN -x ELSE x

NaN == [k |-> "nan", n |-> 0, d |-> 1]
Inf(sgn) == [k |-> "inf", n |-> sgn, d |-> 1]

\* n/d in lowest terms with a positive denominator (d # 0)
Rat(n, d) ==
    LET g == GCD(Abs(n), Abs(d))
        s == IF d < 0 THEN -1 ELSE 1
    IN [k |-> "num", n |-> (s * n) \div g, d |-> (s * d) \div g]

Num(x) == Rat(x, 1)

Sign(x) == IF x.n < 0 THEN -1 ELSE 1

FNeg(a) ==
    IF a.k = "nan" THEN NaN
    ELSE IF a.k = "inf" THEN Inf(-a.n)
    ELSE Rat(-a.n, a.d)

FAdd(a, b) ==
    IF a.k = "nan" \/ b.k = "nan" THEN NaN
    ELSE IF a.k = "inf" /\ b.k = "inf" THEN (IF a.n = b.n THEN a ELSE NaN)
    ELSE IF a.k = "inf" THEN a
    ELSE IF b.k = "inf" THEN b
    ELSE Rat(a.n * b.d + b.n * a.d, a.d * b.d)

FSub(a, b) == FAdd(a, FNeg(b))

FDiv(a, b) ==
    IF a.k = "nan" \/ b.k = "nan" THEN NaN
    ELSE IF a.k = "inf" /\ b.k = "inf" THEN NaN
    ELSE IF a.k = "inf" THEN Inf(a.n * Sign(b))
    ELSE IF b.k = "inf" THEN Num(0)
    ELSE IF b.n = 0 THEN (IF a.n = 0 THEN NaN ELSE Inf(Sign(a)))
    ELSE Rat(a.n * b.d, a.d * b.n)

\* Python's x > 0 and x < 0 on a float: False for NaN
Gt0(a) == a.k # "nan" /\ a.n > 0
Lt0(a) == a.k # "nan" /\ a.n < 0

\* a <= b for two finite values
Leq(a, b) == a.n * b.d <= b.n * a.d

----------------------------------------------------------------------------
(* pandas Series operations used by calculate_technical_indicators *)

\* Series.diff(): NaN at the first position, s[t] - s[t-1] after it
Diff(s) == [t \in 1..Len(s) |-> IF t = 1 THEN NaN ELSE FSub(s[t], s[t - 1])]

\* delta.where(delta > 0, 0) and delta.where(delta < 0, 0)
WherePositive(s) == [t \in 1..Len(s) |-> IF Gt0(s[t]) THEN s[t] ELSE Num(0)]
WhereNegative(s) == [t \in 1..Len(s) |-> IF Lt0(s[t]) THEN s[t] ELSE Num(0)]

Negate(s) == [t \in 1..Len(s) |-> FNeg(s[t])]

\* One step of the sliding window: add s[t], remove s[t-w]; NaNs are not counted
RollStep(s, w, t, st) ==
    LET added == IF s[t].k = "nan" THEN st
                 ELSE [nobs |-> st.nobs + 1, sum |-> FAdd(st.sum, s[t])]
    IN IF t > w /\ s[t - w].k # "nan"
       THEN [nobs |-> added.nobs - 1, sum |-> FSub(added.sum, s[t - w])]
       ELSE added

RECURSIVE Roll(_, _, _, _, _, _)
Roll(s, w, minp, t, st, out) ==
    IF t > Len(s) THEN out
    ELSE LET st2 == RollStep(s, w, t, st)
             val == IF st2.nobs >= minp THEN FDiv(st2.sum, Num(st2.nobs)) ELSE NaN
         IN Roll(s, w, minp, t + 1, st2, Append(out, val))

RollingMean_MinPeriodsOne(s, w) == Roll(s, w, 1, 1, [nobs |-> 0, sum |-> Num(0)], <<>>)

\* Series.rolling(window=w).mean(): min_periods defaults to the window
RollingMean(s, w) == Roll(s, w, w, 1, [nobs |-> 0, sum |-> Num(0)], <<>>)

SeriesDiv(a, b) == [t \in 1..Len(a) |-> FDiv(a[t], b[t])]

\* 100 - (100 / (1 + rs))
RsiOfRs(rs) == [t \in 1..Len(rs) |-> FSub(Num(100), FDiv(Num(100), FAdd(Num(1), rs[t])))]

\* df[name] = series: replaces the column, or appends it after the others
SetColumn(df, name, series) ==
    [index |-> df.index,
     columns |-> IF \E j \in 1..Len(df.columns) : df.columns[j] = name
                 THEN df.columns ELSE Append(df.columns, name),
     cols |-> [c \in DOMAIN df.cols \cup {name} |->
                 IF c = name THEN series ELSE df.cols[c]]]

calculate_technical_indicators(df) ==
    LET close == df.cols["Close"]
        df1 == SetColumn(df, "SMA20", RollingMean(close, SMA_SHORT))
        df2 == SetColumn(df1, "SMA50", RollingMean(close, SMA_LONG))
        delta == Diff(close)
        gain == RollingMean(WherePositive(delta), RSI_WINDOW)
        loss == RollingMean(Negate(WhereNegative(delta)), RSI_WINDOW)
        rs == SeriesDiv(gain, loss)
    IN SetColumn(df2, "RSI", RsiOfRs(rs))

----------------------------------------------------------------------------
(* The external world: what the providers hold *)

Min(a, b) == IF a < b THEN a ELSE b
Max(a, b) == IF a > b THEN a ELSE b

\* A close-price series of n bars from 100: slope s1 up to bar k, slope s2
\* after it, plus a zigzag of amplitude z
Closes(n, sh) ==
    [t \in 1..n |-> Num(100 + sh.s1 * Min(t - 1, sh.k)
                        + sh.s2 * Max(t - 1 - sh.k, 0) + sh.z * ((t - 1) % 2))]

Shapes == [s1 : {-1, 0, 2}, s2 : {-1, 0, 2}, z : {0, 3}, k : {5, 20}]

PriceColumns == <<"Open", "High", "Low", "Close", "Volume">>

\* The price table of a daily history: one bar per day, a timezone-aware
\* midnight timestamp as index
PriceTable(close) ==
    [index |-> [t \in 1..Len(close) |-> [day |-> t, hour |-> 0, tz |-> -5]],
     columns |-> PriceColumns,
     cols |-> [c \in {"Open", "High", "Low", "Close", "Volume"} |->
                [t \in 1..Len(close) |->
                    CASE c = "Open" -> FSub(close[t], Num(1))
                      [] c = "High" -> FAdd(close[t], Num(2))
                      [] c = "Low" -> FSub(close[t], Num(2))
                      [] c = "Close" -> close[t]
                      [] OTHER -> Num(1000 + t)]]]

RequiredKeys == {"longName", "longBusinessSummary", "marketCap",
                 "fiftyTwoWeekHigh", "fiftyTwoWeekLow"}
OptionalKeys == {"trailingPE", "forwardPE", "dividendYield"}
AllKeys == RequiredKeys \cup OptionalKeys

Rising == [s1 |-> 2, s2 |-> -1, z |-> 3, k |-> 5]

Listed == [table |-> PriceTable(Closes(21, Rising)), info |-> AllKeys]
Recent == [table |-> PriceTable(Closes(2, Rising)), info |-> RequiredKeys]
NoBars == [table |-> PriceTable(Closes(0, Rising)), info |-> AllKeys]
NoName == [table |-> PriceTable(Closes(2, Rising)), info |-> AllKeys \ {"longName"}]
NoCap == [table |-> PriceTable(Closes(2, Rising)), info |-> AllKeys \ {"marketCap"}]

\* What the market-data provider can hold for the two symbols
Markets ==
    { [s \in Symbols |-> IF s = "A" THEN Listed ELSE Recent],
      [s \in Symbols |-> IF s = "A" THEN NoBars ELSE Listed],
      [s \in Symbols |-> IF s = "A" THEN NoName ELSE Recent],
      [s \in Symbols |-> IF s = "A" THEN Recent ELSE NoCap] }

\* An article as the news provider returns it: polarity is what the scorer
\* gives for its title and description (in tenths); a malformed article makes
\* its processing raise
Article(p) == [polarity |-> p, malformed |-> FALSE]
Malformed == [polarity |-> 0, malformed |-> TRUE]

\* What the news provider can hold for the two symbols
Feeds ==
    { [s \in Symbols |-> IF s = "A" THEN <<Article(2), Article(-4), Article(6)>>
                         ELSE <<>>],
      [s \in Symbols |-> IF s = "A" THEN <<Malformed>>
                         ELSE <<Article(5), Malformed, Article(-10)>>] }

Days == 1..2

SymbolLists == UNION { [1..n -> Symbols] : n \in 1..MaxSymbols }

----------------------------------------------------------------------------
(* Python dicts *)

EmptyDict == [x \in {} |-> 0]
Put(f, key, v) == [x \in DOMAIN f \cup {key} |-> IF x = key THEN v ELSE f[x]]

NoCrash == [at |-> "", exc |-> "", key |-> ""]
UI(kind, what, sym) == [kind |-> kind, what |-> what, sym |-> sym]
Call(fn, sym, res) == [fn |-> fn, sym |-> sym, res |-> res]

\* One page element per symbol of the list that is in keep, up to position upto
RECURSIVE Elements(_, _, _, _, _)
Elements(kind, what, keep, upto, t) ==
    IF t > upto THEN <<>>
    ELSE (IF symbols[t] \in keep THEN <<UI(kind, what, symbols[t])>> ELSE <<>>)
         \o Elements(kind, what, keep, upto, t + 1)

\* The least element of a non-empty set of positions
Least(S) == CHOOSE t \in S : \A u \in S : t <= u

\* The first of the keys, in the order the code reads them, that d lacks
RECURSIVE FirstMissing(_, _, _)
FirstMissing(keys, d, t) ==
    IF t > Len(keys) THEN ""
    ELSE IF keys[t] \notin d THEN keys[t]
    ELSE FirstMissing(keys, d, t + 1)

Raise(at, exc, key) ==
    /\ crash' = [at |-> at, exc |-> exc, key |-> key]
    /\ pc' = "crashed"

----------------------------------------------------------------------------
(* Lines 59-61: the date-range check *)

CheckDates_NoStop ==
    /\ pc = "dates"
    /\ ui' = IF start_date > end_date
             THEN Append(ui, UI("error", "date_range", "")) ELSE ui
    /\ pc' = "fetch"
    /\ i' = 1
    /\ UNCHANGED <<symbols, start_date, end_date, api_key_set, market, feed,
                   data, info, log, ns_local, news_sentiment, csv, crash>>

CheckDates ==
    /\ pc = "dates"
    /\ IF start_date > end_date
       THEN /\ ui' = Append(ui, UI("error", "date_range", ""))
            /\ pc' = "stopped"
            /\ i' = i
       ELSE /\ ui' = ui
            /\ pc' = "fetch"
            /\ i' = 1
    /\ UNCHANGED <<symbols, start_date, end_date, api_key_set, market, feed,
                   data, info, log, ns_local, news_sentiment, csv, crash>>

----------------------------------------------------------------------------
(* Lines 64-79: get_stock_data *)

\* One iteration of the loop over the symbols
GetStockDataStep ==
    /\ pc = "fetch"
    /\ i <= Len(symbols)
    /\ LET symbol == symbols[i] IN
        \/ \* stock.history raises
           /\ log' = Append(log, Call("history", symbol, "raised"))
           /\ ui' = Append(ui, UI("error", "fetch", symbol))
           /\ UNCHANGED <<data, info>>
        \/ \* stock.history returns, stock.info raises
           /\ log' = log \o <<Call("history", symbol, "ok"), Call("info", symbol, "raised")>>
           /\ data' = Put(data, symbol, market[symbol].table)
           /\ ui' = Append(ui, UI("error", "fetch", symbol))
           /\ UNCHANGED info
        \/ \* both return
           /\ log' = log \o <<Call("history", symbol, "ok"), Call("info", symbol, "ok")>>
           /\ data' = Put(data, symbol, market[symbol].table)
           /\ info' = Put(info, symbol, market[symbol].info)
           /\ UNCHANGED ui
    /\ i' = i + 1
    /\ UNCHANGED <<symbols, start_date, end_date, api_key_set, market, feed, pc,
                   ns_local, news_sentiment, csv, crash>>

GetStockDataReturn ==
    /\ pc = "fetch"
    /\ i > Len(symbols)
    /\ pc' = "gate"
    /\ UNCHANGED <<symbols, start_date, end_date, api_key_set, market, feed, i,
                   data, info, log, ui, ns_local, news_sentiment, csv, crash>>

----------------------------------------------------------------------------
(* Lines 207-301: headers, key statistics and charts *)

\* Line 207 and lines 372-373
Gate ==
    /\ pc = "gate"
    /\ IF DOMAIN data # {} /\ DOMAIN info # {}
       THEN /\ pc' = "headers"
            /\ ui' = ui
       ELSE /\ pc' = "footer"
            /\ ui' = Append(ui, UI("warning", "invalid_symbols", ""))
    /\ UNCHANGED <<symbols, start_date, end_date, api_key_set, market, feed, i,
                   data, info, log, ns_local, news_sentiment, csv, crash>>

HeaderKeys == <<"longName", "longBusinessSummary">>

\* Lines 209-212
RenderHeaders ==
    /\ pc = "headers"
    /\ LET bad == { t \in 1..Len(symbols) :
                      /\ symbols[t] \in DOMAIN info
                      /\ FirstMissing(HeaderKeys, info[symbols[t]], 1) # "" }
       IN IF bad = {}
          THEN /\ ui' = ui \o Elements("header", "", DOMAIN info, Len(symbols), 1)
               /\ pc' = "key_stats"
               /\ crash' = crash
          ELSE LET t0 == Least(bad)
                   key == FirstMissing(HeaderKeys, info[symbols[t0]], 1)
               IN /\ ui' = ui \o Elements("header", "", DOMAIN info, t0 - 1, 1)
                            \o (IF key = "longName" THEN <<>>
                                ELSE <<UI("header", "", symbols[t0])>>)
                  /\ Raise("headers", "KeyError", key)
    /\ UNCHANGED <<symbols, start_date, end_date, api_key_set, market, feed, i,
                   data, info, log, ns_local, news_sentiment, csv>>

StatKeys == <<"marketCap", "fiftyTwoWeekHigh", "fiftyTwoWeekLow">>

\* Lines 214-231
KeyStats ==
    /\ pc = "key_stats"
    /\ LET bad == { t \in 1..Len(symbols) :
                      /\ symbols[t] \in DOMAIN info
                      /\ FirstMissing(StatKeys, info[symbols[t]], 1) # "" }
       IN IF bad = {}
          THEN /\ ui' = Append(ui, UI("key_stats", "", ""))
               /\ pc' = "chart_overview"
               /\ crash' = crash
          ELSE /\ ui' = ui
               /\ Raise("key_stats", "KeyError",
                        FirstMissing(StatKeys, info[symbols[Least(bad)]], 1))
    /\ UNCHANGED <<symbols, start_date, end_date, api_key_set, market, feed, i,
                   data, info, log, ns_local, news_sentiment, csv>>

\* Lines 239-253: the indicators are computed in place on each table of data
ChartOverview ==
    /\ pc = "chart_overview"
    /\ data' = [s \in DOMAIN data |-> calculate_technical_indicators(data[s])]
    /\ ui' = Append(ui, UI("chart_overview", "", ""))
    /\ pc' = "chart_tabs"
    /\ UNCHANGED <<symbols, start_date, end_date, api_key_set, market, feed, i,
                   info, log, ns_local, news_sentiment, csv, crash>>

\* Lines 255-287: the indicators again, then df.index[0] for the RSI chart
ChartTabs ==
    /\ pc = "chart_tabs"
    /\ LET bad == { t \in 1..Len(symbols) :
                      /\ symbols[t] \in DOMAIN data
                      /\ Len(data[symbols[t]].index) = 0 }
           upto == IF bad = {} THEN Len(symbols) ELSE Least(bad)
           done == { symbols[t] : t \in 1..upto } \cap DOMAIN data
       IN /\ data' = [s \in DOMAIN data |->
                        IF s \in done THEN calculate_technical_indicators(data[s])
                        ELSE data[s]]
          /\ IF bad = {}
             THEN /\ ui' = ui \o Elements("tab", "", DOMAIN data, Len(symbols), 1)
                  /\ pc' = "volume"
                  /\ crash' = crash
             ELSE /\ ui' = ui \o Elements("tab", "", DOMAIN data, upto - 1, 1)
                           \o <<UI("price_chart", "", symbols[upto])>>
                  /\ Raise("chart_tabs", "IndexError", symbols[upto])
    /\ UNCHANGED <<symbols, start_date, end_date, api_key_set, market, feed, i,
                   info, log, ns_local, news_sentiment, csv>>

\* Lines 289-301
VolumeChart ==
    /\ pc = "volume"
    /\ ui' = Append(ui, UI("volume_chart", "", ""))
    /\ pc' = "news_enter"
    /\ UNCHANGED <<symbols, start_date, end_date, api_key_set, market, feed, i,
                   data, info, log, ns_local, news_sentiment, csv, crash>>

----------------------------------------------------------------------------
(* Lines 97-189 and 303-305: get_news_sentiment *)

RECURSIVE SumSeq(_, _)
SumSeq(s, t) == IF t > Len(s) THEN Num(0) ELSE FAdd(s[t], SumSeq(s, t + 1))

\* Lines 138-164: the polarity of each article whose processing does not raise
RECURSIVE Sentiments(_, _)
Sentiments(articles, t) ==
    IF t > Len(articles) THEN <<>>
    ELSE (IF articles[t].malformed THEN <<>> ELSE <<Rat(articles[t].polarity, 10)>>)
         \o Sentiments(articles, t + 1)

\* Line 166
Average(sentiments) ==
    IF Len(sentiments) > 0
    THEN FDiv(SumSeq(sentiments, 1), Num(Len(sentiments)))
    ELSE Num(0)

\* Lines 100-115, entered from line 305
NewsEnter ==
    /\ pc = "news_enter"
    /\ \/ \* os.environ['API_KEY'] raises KeyError, outside any try
          /\ ~api_key_set
          /\ Raise("news_enter", "KeyError", "API_KEY")
          /\ UNCHANGED <<ui, i, ns_local, news_sentiment>>
       \/ \* NewsApiClient(...) raises: return {}
          /\ api_key_set
          /\ ui' = Append(ui, UI("info", "last_30_days", ""))
          /\ ns_local' = EmptyDict
          /\ news_sentiment' = EmptyDict
          /\ pc' = "sentiment"
          /\ UNCHANGED <<i, crash>>
       \/ /\ api_key_set
          /\ ui' = Append(ui, UI("info", "last_30_days", ""))
          /\ ns_local' = EmptyDict
          /\ i' = 1
          /\ pc' = "news_loop"
          /\ UNCHANGED <<news_sentiment, crash>>
    /\ UNCHANGED <<symbols, start_date, end_date, api_key_set, market, feed,
                   data, info, log, csv>>

\* Lines 117-182: one iteration of the loop over the symbols
NewsStep ==
    /\ pc = "news_loop"
    /\ i <= Len(symbols)
    /\ LET symbol == symbols[i] IN
        IF symbol \notin DOMAIN info
        THEN \* line 119: info[symbol] raises KeyError, outside the try
             /\ Raise("news_loop", "KeyError", symbol)
             /\ UNCHANGED <<i, log, ui, ns_local, news_sentiment>>
        ELSE
          \/ \* get_everything raises NewsAPIException (lines 174-176)
             /\ log' = Append(log, Call("news", symbol, "api_error"))
             /\ ui' = Append(ui, UI("error", "news_api", symbol))
             /\ i' = i + 1
             /\ UNCHANGED <<pc, ns_local, news_sentiment, crash>>
          \/ \* any other exception (lines 177-182): return {}
             /\ log' = Append(log, Call("news", symbol, "error"))
             /\ ui' = Append(ui, UI("error", "news_fetch", symbol))
             /\ news_sentiment' = EmptyDict
             /\ pc' = "sentiment"
             /\ UNCHANGED <<i, ns_local, crash>>
          \/ \* a response whose status is not ok (lines 172-173)
             /\ log' = Append(log, Call("news", symbol, "bad_status"))
             /\ i' = i + 1
             /\ UNCHANGED <<pc, ui, ns_local, news_sentiment, crash>>
          \/ \* status ok (lines 133-171)
             /\ log' = Append(log, Call("news", symbol, "ok"))
             /\ ns_local' =
                  IF Len(feed[symbol]) = 0 THEN ns_local
                  ELSE LET sentiments == Sentiments(feed[symbol], 1)
                       IN Put(ns_local, symbol,
                              [articles |-> sentiments,
                               average_sentiment |-> Average(sentiments)])
             /\ i' = i + 1
             /\ UNCHANGED <<pc, ui, news_sentiment, crash>>
    /\ UNCHANGED <<symbols, start_date, end_date, api_key_set, market, feed,
                   data, info, csv>>

\* Lines 184-189
NewsReturn ==
    /\ pc = "news_loop"
    /\ i > Len(symbols)
    /\ news_sentiment' = IF DOMAIN ns_local = {} THEN EmptyDict ELSE ns_local
    /\ pc' = "sentiment"
    /\ UNCHANGED <<symbols, start_date, end_date, api_key_set, market, feed, i,
                   data, info, log, ui, ns_local, csv, crash>>

\* Lines 307-346: get_news_sentiment never returns None
SentimentSection ==
    /\ pc = "sentiment"
    /\ ui' = IF DOMAIN news_sentiment # {}
             THEN Append(ui, UI("sentiment_chart", "", ""))
                  \o Elements("sentiment", "", DOMAIN news_sentiment, Len(symbols), 1)
             ELSE Append(ui, UI("warning", "no_sentiment", ""))
    /\ pc' = "tables"
    /\ UNCHANGED <<symbols, start_date, end_date, api_key_set, market, feed, i,
                   data, info, log, ns_local, news_sentiment, csv, crash>>

----------------------------------------------------------------------------
(* Lines 348-378: data tables, CSV links, footer *)

IndicatorColumns == {"SMA20", "SMA50", "RSI"}

\* pd.to_datetime(index).strftime('%Y-%m-%d'): the calendar date, without the
\* time of day and the timezone
StrfDate(ts) == [date |-> ts.day]

Reindexed(df) ==
    [df EXCEPT !.index = [t \in 1..Len(df.index) |-> StrfDate(df.index[t])]]

\* df.drop(columns=names, errors='ignore')
DropColumns(df, names) ==
    LET Keep(c) == c \notin names
    IN [index |-> df.index,
        columns |-> SelectSeq(df.columns, Keep),
        cols |-> [c \in DOMAIN df.cols \ names |-> df.cols[c]]]

\* A float as to_csv writes it: its shortest repr, an empty cell for NaN
Cell(v) == IF v.k = "nan" THEN [text |-> "", value |-> NaN]
           ELSE [text |-> "number", value |-> v]

\* df.to_csv(index=True): a header line, then one line per row
ToCsv(df) ==
    [header |-> df.columns,
     rows |-> [t \in 1..Len(df.index) |->
                [index |-> df.index[t],
                 cells |-> [j \in 1..Len(df.columns) |-> Cell(df.cols[df.columns[j]][t])]]]]

ExportTable_NoDrop(df) == ToCsv(Reindexed(df))

\* Lines 363-367
ExportTable(df) == ToCsv(DropColumns(Reindexed(df), IndicatorColumns))

\* Lines 348-357
DataTables ==
    /\ pc = "tables"
    /\ ui' = ui \o Elements("table", "", DOMAIN data, Len(symbols), 1)
    /\ pc' = "csv"
    /\ UNCHANGED <<symbols, start_date, end_date, api_key_set, market, feed, i,
                   data, info, log, ns_local, news_sentiment, csv, crash>>

\* Lines 359-370
CsvDownload ==
    /\ pc = "csv"
    /\ csv' = [s \in DOMAIN data |-> ExportTable(data[s])]
    /\ ui' = ui \o Elements("csv_link", "", DOMAIN data, Len(symbols), 1)
    /\ pc' = "footer"
    /\ UNCHANGED <<symbols, start_date, end_date, api_key_set, market, feed, i,
                   data, info, log, ns_local, news_sentiment, crash>>

\* Lines 375-378
Footer ==
    /\ pc = "footer"
    /\ ui' = Append(ui, UI("footer", "", ""))
    /\ pc' = "done"
    /\ UNCHANGED <<symbols, start_date, end_date, api_key_set, market, feed, i,
                   data, info, log, ns_local, news_sentiment, csv, crash>>

----------------------------------------------------------------------------
(* One run of the script, from the inputs to the footer *)

Init ==
    /\ symbols \in SymbolLists
    /\ start_date \in Days
    /\ end_date \in Days
    /\ api_key_set \in BOOLEAN
    /\ market \in Markets
    /\ feed \in Feeds
    /\ pc = "dates"
    /\ i = 1
    /\ data = EmptyDict
    /\ info = EmptyDict
    /\ log = <<>>
    /\ ui = <<>>
    /\ ns_local = EmptyDict
    /\ news_sentiment = EmptyDict
    /\ csv = EmptyDict
    /\ crash = NoCrash

Next ==
    \/ CheckDates
    \/ GetStockDataStep
    \/ GetStockDataReturn
    \/ Gate
    \/ RenderHeaders
    \/ KeyStats
    \/ ChartOverview
    \/ ChartTabs
    \/ VolumeChart
    \/ NewsEnter
    \/ NewsStep
    \/ NewsReturn
    \/ SentimentSection
    \/ DataTables
    \/ CsvDownload
    \/ Footer

Spec == Init /\ [][Next]_vars

----------------------------------------------------------------------------
(* calculate_technical_indicators on its own: the run is at the charts, with
   one symbol fetched, and the provider's table ranges over the price series
   of up to MaxBars bars *)

InitInd ==
    /\ symbols = <<"A">>
    /\ start_date = 1
    /\ end_date = 2
    /\ api_key_set = TRUE
    /\ \E n \in 0..MaxBars, sh \in Shapes :
          market = [s \in Symbols |->
                      [table |-> PriceTable(Closes(n, sh)), info |-> AllKeys]]
    /\ feed = [s \in Symbols |-> <<>>]
    /\ pc = "chart_overview"
    /\ i = 2
    /\ data = [s \in {"A"} |-> market[s].table]
    /\ info = [s \in {"A"} |-> market[s].info]
    /\ log = <<Call("history", "A", "ok"), Call("info", "A", "ok")>>
    /\ ui = <<UI("header", "", "A"), UI("key_stats", "", "")>>
    /\ ns_local = EmptyDict
    /\ news_sentiment = EmptyDict
    /\ csv = EmptyDict
    /\ crash = NoCrash

NextInd == ChartOverview \/ ChartTabs

SpecInd == InitInd /\ [][NextInd]_vars

----------------------------------------------------------------------------
(* Properties *)

\* The symbols whose market-data fetch raised, at the history or the info call
FailedFetch ==
    { log[j].sym : j \in { x \in DOMAIN log :
                             log[x].fn \in {"history", "info"} /\ log[x].res = "raised" } }

NewsCalls == { j \in DOMAIN log : log[j].fn = "news" }
FailedNewsCalls == { j \in NewsCalls : log[j].res \in {"api_error", "error"} }

Shown(kind, what, sym) == \E j \in DOMAIN ui : ui[j] = UI(kind, what, sym)

\* The page was let past line 207
GatePassed == DOMAIN data # {} /\ DOMAIN info # {}

\* get_news_sentiment has returned
AfterNews == pc \in {"sentiment", "tables", "csv"} \/ (pc \in {"footer", "done"} /\ GatePassed)

\* C1: in every run where start_date > end_date, the run reports the
\* date-range error and stops, and no external call (history, info, news) is
\* made at any point of the run.
C1_InvalidRangeHaltsBeforeFetch ==
    start_date > end_date =>
        /\ log = <<>>
        /\ pc \in {"dates", "stopped"}
        /\ pc = "stopped" => ui = <<UI("error", "date_range", "")>>

C1_Witness == start_date > end_date /\ pc = "stopped"

\* C2: when get_stock_data has returned, every symbol whose fetch failed (the
\* history call or the info call raised) has an error on the page and no entry
\* in data nor in info, and every other symbol has an entry in both.
C2_FailedSymbolOmittedFromBothMaps ==
    pc = "gate" =>
        \A t \in 1..Len(symbols) :
            IF symbols[t] \in FailedFetch
            THEN /\ Shown("error", "fetch", symbols[t])
                 /\ symbols[t] \notin DOMAIN data
                 /\ symbols[t] \notin DOMAIN info
            ELSE /\ symbols[t] \in DOMAIN data
                 /\ symbols[t] \in DOMAIN info

\* C3: when API_KEY is not set and the run reaches the sentiment section, the
\* run does not abort: no news call is made, no sentiment results are shown,
\* and a run that has ended shows a warning, the data tables and the CSV links.
C3_MissingKeyDisablesSentiment ==
    (~api_key_set /\ (AfterNews \/ crash.at \in {"news_enter", "news_loop"})) =>
        /\ pc # "crashed"
        /\ NewsCalls = {}
        /\ \A s \in Symbols : ~Shown("sentiment", "", s)
        /\ pc = "done" =>
              /\ \E j \in DOMAIN ui : ui[j].kind = "warning"
              /\ \A s \in DOMAIN data : Shown("table", "", s) /\ Shown("csv_link", "", s)

\* C4: when get_news_sentiment has returned and a news call raised, the failure
\* is on the page, no symbol was called twice, the loop went on to the end of
\* the list, and every entry collected in the loop is in the returned result.
C4_NewsFailureSkipsOnlyThatSymbol ==
    (AfterNews /\ FailedNewsCalls # {}) =>
        /\ \A j \in FailedNewsCalls :
              Shown("error", "news_api", log[j].sym) \/ Shown("error", "news_fetch", log[j].sym)
        /\ Cardinality(NewsCalls) = Len(symbols)
        /\ \A s \in DOMAIN ns_local :
              s \in DOMAIN news_sentiment /\ news_sentiment[s] = ns_local[s]

\* The sum of s[a..b], by halves
RECURSIVE RangeSum(_, _, _)
RangeSum(s, a, b) ==
    IF a > b THEN Num(0)
    ELSE IF a = b THEN s[a]
    ELSE LET m == (a + b) \div 2
         IN FAdd(RangeSum(s, a, m), RangeSum(s, m + 1, b))

\* The loss of bar t: max(-(close[t] - close[t-1]), 0)
LossAt(close, t) ==
    LET d == FSub(close[t], close[t - 1]) IN IF Lt0(d) THEN FNeg(d) ELSE Num(0)

IndicatorsApplied == pc # "chart_overview" /\ "A" \in DOMAIN data

\* C5: every RSI value at a bar preceded by 14 day-over-day deltas is a number
\* in [0, 100], and is 100 when the 14 trailing losses are all 0 (a flat
\* window included); no NaN is produced there.
C5_RsiInRangeAnd100WhenNoLoss ==
    IndicatorsApplied =>
        LET df == data["A"]
            close == df.cols["Close"]
            rsi == df.cols["RSI"]
        IN \A t \in (RSI_WINDOW + 1)..Len(close) :
              /\ rsi[t].k = "num"
              /\ Leq(Num(0), rsi[t]) /\ Leq(rsi[t], Num(100))
              /\ (\A u \in (t - RSI_WINDOW + 1)..t : LossAt(close, u) = Num(0))
                    => rsi[t] = Num(100)

\* C6: the RSI is undefined (NaN) at each of the first 14 bars.
C6_RsiUndefinedForFirst14Bars ==
    IndicatorsApplied =>
        LET rsi == data["A"].cols["RSI"]
        IN \A t \in 1..Min(RSI_WINDOW, Len(rsi)) : rsi[t] = NaN

SmaIsWindowMean(df, name, w) ==
    LET close == df.cols["Close"]
        sma == df.cols[name]
    IN /\ Len(sma) = Len(close)
       /\ \A t \in 1..Len(close) :
             IF t < w THEN sma[t] = NaN
             ELSE sma[t] = FDiv(RangeSum(close, t - w + 1, t), Num(w))

\* C7: SMA20 and SMA50 are undefined before their window is full, and from
\* then on equal the arithmetic mean of the last 20 (50) closes.
C7_SmaIsTrailingMean ==
    IndicatorsApplied =>
        /\ data["A"].cols["Close"] = market["A"].table.cols["Close"]
        /\ SmaIsWindowMean(data["A"], "SMA20", SMA_SHORT)
        /\ SmaIsWindowMean(data["A"], "SMA50", SMA_LONG)

C7_Witness ==
    /\ IndicatorsApplied
    /\ Len(data["A"].index) > SMA_LONG
    /\ data["A"].cols["SMA50"][SMA_LONG + 1].k = "num"
    /\ data["A"].cols["SMA50"][SMA_LONG + 1] # data["A"].cols["SMA50"][SMA_LONG]

\* The mean of the polarities of the articles that have one, 0 for none
RECURSIVE PolaritySum(_, _)
PolaritySum(articles, t) ==
    IF t > Len(articles) THEN 0
    ELSE (IF articles[t].malformed THEN 0 ELSE articles[t].polarity)
         + PolaritySum(articles, t + 1)

MeanPolarity(articles) ==
    LET n == Cardinality({ t \in DOMAIN articles : ~articles[t].malformed })
    IN IF n = 0 THEN Num(0) ELSE Rat(PolaritySum(articles, 1), 10 * n)

\* C8: for every symbol whose news call returned with status ok, the loop has
\* recorded an average sentiment equal to the mean of the articles' polarity
\* scores, and equal to 0 when the article list is empty.
C8_AverageRecordedForEveryOkResponse ==
    (pc \in {"news_loop", "sentiment"}) =>
        \A j \in NewsCalls :
            log[j].res = "ok" =>
                /\ log[j].sym \in DOMAIN ns_local
                /\ ns_local[log[j].sym].average_sentiment = MeanPolarity(feed[log[j].sym])

\* C9: the CSV exported for a symbol holds the rows of the price table that
\* was fetched for it, with the same dates and the same values in the same
\* price and volume columns, and none of SMA20, SMA50, RSI; every symbol of
\* data gets one.
C9_CsvIsFetchedPriceTable ==
    /\ (pc \in {"footer", "done"} /\ GatePassed) => DOMAIN csv = DOMAIN data
    /\ \A s \in DOMAIN csv :
          LET fetched == market[s].table
              out == csv[s]
          IN /\ out.header = fetched.columns
             /\ \A j \in 1..Len(out.header) : out.header[j] \notin IndicatorColumns
             /\ Len(out.rows) = Len(fetched.index)
             /\ \A t \in 1..Len(out.rows) :
                   /\ out.rows[t].index.date = fetched.index[t].day
                   /\ Len(out.rows[t].cells) = Len(fetched.columns)
                   /\ \A j \in 1..Len(fetched.columns) :
                         out.rows[t].cells[j].value = fetched.cols[fetched.columns[j]][t]

C9_Witness ==
    \E s \in DOMAIN csv :
        /\ Len(csv[s].rows) >= SMA_SHORT
        /\ IndicatorColumns \subseteq DOMAIN data[s].cols
        /\ data[s].cols["SMA20"][SMA_SHORT].k = "num"
        /\ data[s].cols["RSI"][SMA_SHORT].k = "num"

\* C10: in a run where the fetch failed for some but not all symbols, no stage
\* after get_stock_data aborts the run on a lookup of a failed symbol.
C10_PartialFailureRunsToCompletion ==
    (pc \notin {"dates", "fetch"}
        /\ FailedFetch # {}
        /\ \E t \in 1..Len(symbols) : symbols[t] \notin FailedFetch) =>
        ~(pc = "crashed" /\ crash.exc = "KeyError" /\ crash.key \in FailedFetch)

====
